---- MODULE Spec2Model ----
(***************************************************************************)
(* Model of KokkosBatched::Impl::BatchedGemmWrapperInner::run, the host    *)
(* level algorithm selector of BatchedGemm                                 *)
(* (batched/dense/impl/KokkosBatched_HostLevel_Gemm_Impl.hpp).             *)
(*                                                                         *)
(* One behaviour is one instantiation of the class template (its template  *)
(* arguments and the build's preprocessor switches are fixed by Init) and  *)
(* one handle that the caller reuses for a sequence of calls of run().     *)
(*                                                                         *)
(* The module also models the four specializations of                      *)
(* KokkosBatched::TeamVectorGemv for a rank-3 A                            *)
(* (batched/dense/impl/KokkosBatched_Gemv_TeamVector_Impl.hpp); they have  *)
(* a state and a specification of their own, SpecGemv.                     *)
(***************************************************************************)
EXTENDS Integers, Sequences, FiniteSets, TLC

(***************************************************************************)
(* Bounds of the model.                                                    *)
(***************************************************************************)
\* rows of C range over 0..MaxExtent
MaxExtent == 65
\* where every algorithm identifier is tried, the rows of C are the multiples
\* of ExtentStep in 0..MaxExtent
ExtentStep == 8
\* C is square, or its columns are MaxSkew more or fewer than its rows
MaxSkew == 4
\* the caller constructs the handle with teamSz and vecLen either left at 0
\* (unset) or set to MaxTune
MaxTune == 4
\* number of matrices in the batch (the batch extent of C)
NumBatch == 2
\* the views given for A, B and C have ranks 2..MaxRank
MaxRank == 4
\* TeamVectorGemv: each extent of A ranges over 1..MaxGemvExtent
MaxGemvExtent == 2
\* TeamVectorGemv: alpha and beta range over 0..MaxScalar
MaxScalar == 1

(***************************************************************************)
(* Algorithm identifiers (handle->get_kernel_algo_type()).  The integer    *)
(* values are those of the chained enums of KokkosBatched_Kernel_Handle.hpp*)
(* and KokkosBatched_Gemm_Handle.hpp; the selector prints them with        *)
(* std::to_string.                                                         *)
(***************************************************************************)
SQUARE == 0
TALL == 1
WIDE == 2
ARMPL == 3
MKL == 4
KK_SERIAL == 5
CUBLAS == 6
MAGMA == 7
KK_TEAM == 8
KK_TEAMVECTOR == 9
KK_SERIALSIMD == 10
KK_TEAMSIMD == 11
KK_SERIAL_RANK0 == 12
KK_SERIAL_SHMEM == 13
KK_DBLBUF == 14

AlgoIds == SQUARE..KK_DBLBUF

\* std::to_string(int)
to_string(n) == ToString(n)

(***************************************************************************)
(* Template arguments and build switches of one instantiation.             *)
(*   space    CViewType::execution_space                                   *)
(*   mem      what exec_space::memory_space is: device memory, or host     *)
(*            memory on an x86_64 / a64fx / other CPU                      *)
(*   rdc      __CUDACC_RDC__ is defined                                    *)
(*   vega908  KOKKOS_ENABLE_HIP && KOKKOS_ARCH_VEGA908                     *)
(*   armpl    KOKKOSKERNELS_ENABLE_TPL_ARMPL && ARMPL_BUILD >= 1058        *)
(*   layout   CViewType::array_layout                                      *)
(*   batch    ArgBatchSzDim                                                *)
(*   vec      is_vector<CViewType::value_type>                             *)
(*   rankA, rankB, rankC   AViewType::rank, BViewType::rank,               *)
(*            CViewType::rank                                              *)
(***************************************************************************)
Spaces == {"Cuda", "HIP", "Host"}
MemSpaces == {"device", "host_x86_64", "host_a64fx", "host_other"}
Layouts == {"LayoutLeft", "LayoutRight", "LayoutStride"}
BatchLayouts == {"Left", "Right"}
Ranks == 2..MaxRank

\* A device execution space has device memory and a host one host memory.
\* The three preprocessor switches are those of the build, whatever the
\* execution space of the instantiation.
Instantiations ==
  {i \in [space : Spaces, mem : MemSpaces, rdc : BOOLEAN, vega908 : BOOLEAN,
          armpl : BOOLEAN, layout : Layouts, batch : BatchLayouts,
          vec : BOOLEAN, rankA : Ranks, rankB : Ranks, rankC : Ranks] :
     (i.space = "Host") <=> (i.mem # "device")}

\* KokkosKernels::Impl::kk_is_gpu_exec_space<exec_space>()
kk_is_gpu_exec_space(i) == i.space \in {"Cuda", "HIP"}
\* KokkosKernels::Impl::kk_is_x86_64_mem_space<memory_space>()
kk_is_x86_64_mem_space(i) == i.mem = "host_x86_64"
\* KokkosKernels::Impl::kk_is_a64fx_mem_space<memory_space>()
kk_is_a64fx_mem_space(i) == i.mem = "host_a64fx"

(***************************************************************************)
(* Tile sizes and the alpha-in-fma threshold.                              *)
(***************************************************************************)
kk_gemm_dlb_buf_tile_m_HIP16(i) == IF i.space = "HIP" THEN 16 ELSE 32

kk_gemm_dlb_buf_tile_m(i) == 32

kk_gemm_dlb_buf_tile_n(i) == 32

kk_gemm_dlb_buf_tile_k_default(i) == 8

kk_gemm_dlb_buf_tile_k(i) ==
  IF i.space = "HIP" /\ i.vega908 THEN 16 ELSE 8

kk_gemm_dbl_buf_alpha_in_fma_thresh_noRDC(i) == 64

kk_gemm_dbl_buf_alpha_in_fma_thresh(i) == IF i.rdc THEN 24 ELSE 64

(***************************************************************************)
(* Kernel instantiations.  A field that a kernel does not have is "n/a"    *)
(* (0 for a tile size).                                                    *)
(***************************************************************************)
BatchedDblBufGemm(bounds, alpha, tm, tn, tk) ==
  [kernel |-> "BatchedDblBufGemm", bounds |-> bounds, alpha |-> alpha,
   tile_m |-> tm, tile_n |-> tn, tile_k |-> tk, mode |-> "n/a", rpt |-> "n/a"]

BatchedSerialGemm(mode, rpt) ==
  [kernel |-> "BatchedSerialGemm", bounds |-> "n/a", alpha |-> "n/a",
   tile_m |-> 0, tile_n |-> 0, tile_k |-> 0, mode |-> mode, rpt |-> rpt]

BatchedArmplGemm ==
  [kernel |-> "BatchedArmplGemm", bounds |-> "n/a", alpha |-> "n/a",
   tile_m |-> 0, tile_n |-> 0, tile_k |-> 0, mode |-> "n/a", rpt |-> "n/a"]

\* what invoke() of a kernel may return: 0 upon success, non-zero otherwise
KernelStatus == {0, 1}

(***************************************************************************)
(* The frame of one execution of run(): the handle it points to, its       *)
(* locals, and what it has done so far.                                    *)
(*   outcome  "running", then "returned" or "error" (an exception left     *)
(*            run())                                                       *)
(*   invoked  the kernels invoked, in order                                *)
(*   statuses the status each of them returned, in the same order          *)
(*   cWrites  how often C was handed to a kernel that writes it            *)
(*   out      what was written to std::cout                                *)
(***************************************************************************)
Frame(h) ==
  [handle |-> h, ret |-> 0, out_of_range |-> FALSE, outcome |-> "running",
   msg |-> <<>>, invoked |-> <<>>, statuses |-> <<>>, cWrites |-> 0,
   out |-> <<>>]

\* std::endl, the last thing written to each message
endl == "\n"

\* KokkosKernels::Impl::throw_runtime_exception(os.str())
throw_runtime_exception(f, m) == [f EXCEPT !.outcome = "error", !.msg = m]

\* ret = Kernel<...>(..., C).invoke(): the kernel runs once, writes C in place
\* and its status is stored in ret
invoke(f, k, status) ==
  [f EXCEPT !.invoked = Append(@, k), !.statuses = Append(@, status),
            !.cWrites = @ + 1, !.ret = status]

\* the first switch: views of SIMD values are taken by three algorithms only
SimdAlgoSupported_WithRank0(algo) ==
  algo \in {KK_SERIAL, KK_SERIAL_RANK0, SQUARE, ARMPL}

SimdAlgoSupported(algo) == algo \in {KK_SERIAL, SQUARE, ARMPL}

CheckSimdAlgo(f, i) ==
  IF i.vec /\ ~SimdAlgoSupported(f.handle.kernelAlgoType)
  THEN throw_runtime_exception(f,
         <<"KokkosBatched::BatchedGemm does not support kernelAlgoType = ",
           to_string(f.handle.kernelAlgoType), " with SIMD views.", endl>>)
  ELSE f

\* The static_asserts on the ranks of the views.  With SIMD values they stand
\* under the case labels of the first switch; a static_assert is evaluated
\* when the function is instantiated, whatever the case taken at run time.
RankAssertsHold(i) ==
  IF i.vec
  THEN i.rankA = 3 /\ i.rankB = 3 /\ i.rankC = 3
  ELSE i.rankA = 3 /\ i.rankB = 3 /\ i.rankC = 3

\* the two static_asserts on c_layout and ArgBatchSzDim
LayoutAssertsHold_Swapped(i) ==
  /\ ~(i.layout = "LayoutLeft" /\ i.batch # "Left")
  /\ ~(i.layout = "LayoutRight" /\ i.batch # "Right")

LayoutAssertsHold(i) ==
  /\ ~(i.layout = "LayoutLeft" /\ i.batch # "Right")
  /\ ~(i.layout = "LayoutRight" /\ i.batch # "Left")

\* The extents of C: BxMxN for BatchLayout::Left, MxNxB for BatchLayout::Right
CView(i, b, m, n) == IF i.batch = "Left" THEN <<b, m, n>> ELSE <<m, n, b>>

\* The extents of A (BxMxK, MxKxB) and of B (BxKxN, KxNxB); run() hands the
\* two views to the kernel and reads no extent of them
AView(i, b, m, k) == IF i.batch = "Left" THEN <<b, m, k>> ELSE <<m, k, b>>

BView(i, b, k, n) == IF i.batch = "Left" THEN <<b, k, n>> ELSE <<k, n, b>>

\* C.extent(r), r = 0, 1, 2
extent(C, r) == C[r + 1]

c_m_of(i, C) == IF i.batch = "Left" THEN extent(C, 1) ELSE extent(C, 0)

c_n_of(i, C) == IF i.batch = "Left" THEN extent(C, 2) ELSE extent(C, 1)

\* the dump of the derived types when handle->enableDebug
DebugTypes_OnGpuOnly(f, i) ==
  IF f.handle.enableDebug /\ kk_is_gpu_exec_space(i)
  THEN [f EXCEPT !.out = Append(@,
          <<"is_vector", i.vec, "on_gpu", kk_is_gpu_exec_space(i),
            "on_x86_64", kk_is_x86_64_mem_space(i),
            "on_a64fx", kk_is_a64fx_mem_space(i)>>)]
  ELSE f

DebugTypes(f, i) ==
  IF f.handle.enableDebug
  THEN [f EXCEPT !.out = Append(@,
          <<"is_vector", i.vec, "on_gpu", kk_is_gpu_exec_space(i),
            "on_x86_64", kk_is_x86_64_mem_space(i),
            "on_a64fx", kk_is_a64fx_mem_space(i)>>)]
  ELSE f

(***************************************************************************)
(* case BaseHeuristicAlgos::SQUARE                                         *)
(***************************************************************************)
NotSquare_Greater(c_m, c_n) == c_m > c_n

NotSquare(c_m, c_n) == c_m # c_n

bsgResultsPerThread_OnGpu(i) ==
  IF kk_is_gpu_exec_space(i) THEN "Rank0" ELSE "Rank2"

bsgResultsPerThread(i) ==
  IF ~i.vec /\ kk_is_gpu_exec_space(i) THEN "Rank0" ELSE "Rank2"

bsgModeType_PlainRule(i) ==
  IF kk_is_gpu_exec_space(i)
  THEN "Unblocked"
  ELSE (IF kk_is_a64fx_mem_space(i) THEN "Unblocked" ELSE "Blocked")

bsgModeType(i) ==
  IF i.vec
  THEN (IF kk_is_gpu_exec_space(i) \/ kk_is_x86_64_mem_space(i)
        THEN "Blocked" ELSE "Unblocked")
  ELSE (IF kk_is_gpu_exec_space(i)
        THEN "Unblocked"
        ELSE (IF kk_is_a64fx_mem_space(i) THEN "Unblocked" ELSE "Blocked"))

DebugBsg(f, i) ==
  IF f.handle.enableDebug
  THEN [f EXCEPT !.out = Append(@,
          <<"bsgResultsPerThread", bsgResultsPerThread(i),
            "bsgModeType", bsgModeType(i)>>)]
  ELSE f

\* the size test that guards the tiled path, evaluated with the handle in scope
InTiledRange_OneThreshold(h, i, c_m) ==
  IF i.layout = "LayoutLeft" THEN c_m >= 16 ELSE c_m >= 24

InTiledRange_NoGap(h, i, c_m) ==
  IF i.layout = "LayoutLeft" THEN c_m >= 16 ELSE c_m >= 24

InTiledRange_Untuned(h, i, c_m) ==
  /\ h.teamSz # 8
  /\ IF i.layout = "LayoutLeft"
     THEN c_m >= 16
     ELSE (c_m >= 24 /\ c_m <= 32) \/ c_m >= 40

InTiledRange(h, i, c_m) ==
  IF i.layout = "LayoutLeft"
  THEN c_m >= 16
  ELSE (c_m >= 24 /\ c_m <= 32) \/ c_m >= 40

\* the four instantiations of the tiled kernel the heuristic chooses from
TiledKernel(i, c_m) ==
  BatchedDblBufGemm(IF c_m % 32 = 0 THEN "No" ELSE "Yes",
                    IF c_m >= kk_gemm_dbl_buf_alpha_in_fma_thresh(i)
                    THEN "Yes" ELSE "No",
                    kk_gemm_dlb_buf_tile_m(i), kk_gemm_dlb_buf_tile_n(i),
                    kk_gemm_dlb_buf_tile_k(i))

\* if constexpr (on_gpu) { ... }
SquareOnGpu_TuneOutOfRange(f, i, c_m, status) ==
  IF kk_is_gpu_exec_space(i)
  THEN IF InTiledRange(f.handle, i, c_m)
       THEN invoke([f EXCEPT !.handle.teamSz = 8, !.handle.vecLen = 8],
                   TiledKernel(i, c_m), status)
       ELSE [f EXCEPT !.out_of_range = TRUE,
                      !.handle.teamSz = 8, !.handle.vecLen = 8]
  ELSE f

SquareOnGpu(f, i, c_m, status) ==
  IF kk_is_gpu_exec_space(i)
  THEN IF InTiledRange(f.handle, i, c_m)
       THEN invoke([f EXCEPT !.handle.teamSz = 8, !.handle.vecLen = 8],
                   TiledKernel(i, c_m), status)
       ELSE [f EXCEPT !.out_of_range = TRUE]
  ELSE f

\* if (!on_gpu || out_of_range)
FallsToSerial_Always(on_gpu, out_of_range) == TRUE

FallsToSerial(on_gpu, out_of_range) == ~on_gpu \/ out_of_range

SquareSerial(f, i, status) ==
  IF FallsToSerial(kk_is_gpu_exec_space(i), f.out_of_range)
  THEN invoke(f, BatchedSerialGemm(bsgModeType(i), bsgResultsPerThread(i)),
              status)
  ELSE f

CaseSquare(f, i, c_m, c_n, status) ==
  IF NotSquare(c_m, c_n)
  THEN throw_runtime_exception(f,
         <<"KokkosBatched::BatchedGemm does not support kernelAlgoType = ",
           to_string(f.handle.kernelAlgoType), " when c_m(", to_string(c_m),
           ") != c_n(", to_string(c_n), ")", endl>>)
  ELSE SquareSerial(SquareOnGpu(DebugBsg(f, i), i, c_m, status), i, status)

(***************************************************************************)
(* The other cases of the switch on handle->get_kernel_algo_type()         *)
(***************************************************************************)
CaseDefault_SerialFallback(f, i, status) ==
  invoke(f, BatchedSerialGemm("Unblocked", "Rank2"), status)

CaseDefault(f, i, status) ==
  throw_runtime_exception(f,
    <<"KokkosBatched::BatchedGemm does not support kernelAlgoType = ",
      to_string(f.handle.kernelAlgoType), ".", endl>>)

\* case GemmKokkosBatchedAlgos::KK_DBLBUF
CaseDblBuf_Heuristic(f, i, c_m, status) ==
  invoke(f, TiledKernel(i, c_m), status)

CaseDblBuf(f, i, c_m, status) ==
  invoke(f, BatchedDblBufGemm("Yes", "No", 1, 1, 1), status)

Dispatch(f, i, c_m, c_n, status) ==
  LET algo == f.handle.kernelAlgoType IN
  CASE algo = SQUARE -> CaseSquare(f, i, c_m, c_n, status)
    [] algo = ARMPL /\ i.armpl -> invoke(f, BatchedArmplGemm, status)
    [] algo = KK_SERIAL ->
         invoke(f, BatchedSerialGemm("Unblocked", "Rank2"), status)
    [] algo = KK_SERIAL_RANK0 ->
         invoke(f, BatchedSerialGemm("Unblocked", "Rank0"), status)
    [] algo = KK_DBLBUF -> CaseDblBuf(f, i, c_m, status)
    [] OTHER -> CaseDefault(f, i, status)

\* return ret;
Return(f) == IF f.outcome = "error" THEN f ELSE [f EXCEPT !.outcome = "returned"]

\* BatchedGemmWrapperInner<...>::run(handle, alpha, A, B, beta, C)
run(h, i, C, status) ==
  LET f1 == CheckSimdAlgo(Frame(h), i) IN
  IF f1.outcome = "error"
  THEN f1
  ELSE Return(Dispatch(DebugTypes(f1, i), i, c_m_of(i, C), c_n_of(i, C),
                       status))

(***************************************************************************)
(* KokkosBatched::TeamVectorGemv<MemberType, ArgTrans, ArgAlgo>::invoke    *)
(* (KokkosBatched_Gemv_TeamVector_Impl.hpp).                               *)
(*                                                                         *)
(* A view is a record of its data pointer, its extents and its strides.    *)
(* One invoke works on a frame:                                            *)
(*   outcome   "running", "returned" or "aborted"                          *)
(*   ret       the int returned                                            *)
(*   msg       the message given to Kokkos::abort                          *)
(*   internal  the calls of TeamVectorGemvInternal::invoke, each with its  *)
(*             arguments in the order of the call                          *)
(*   readsA, readsX, writesY   how often the data of A and x was handed to *)
(*             code that reads it, and the data of y to code that writes   *)
(*             it                                                          *)
(***************************************************************************)
GemvTrans == {"NoTranspose", "Transpose"}
GemvAlgos == {"Unblocked", "Blocked"}
ViewLayouts == {"LayoutLeft", "LayoutRight"}

\* the strides Kokkos gives a contiguous view of extents e
LayoutStrides(e, layout) ==
  IF Len(e) = 3
  THEN (IF layout = "LayoutRight"
        THEN <<e[2] * e[3], e[3], 1>>
        ELSE <<1, e[1], e[1] * e[2]>>)
  ELSE (IF layout = "LayoutRight" THEN <<e[2], 1>> ELSE <<1, e[1]>>)

View(data, e, layout) ==
  [data |-> data, extents |-> e, strides |-> LayoutStrides(e, layout)]

\* V.extent(r), V.stride_0(), V.stride_1(), V.stride_2(), V.data()
view_extent(V, r) == V.extents[r + 1]
stride_0(V) == V.strides[1]
stride_1(V) == V.strides[2]
stride_2(V) == V.strides[3]
data(V) == V.data

GemvFrame ==
  [outcome |-> "running", ret |-> 0, msg |-> "", internal |-> <<>>,
   readsA |-> 0, readsX |-> 0, writesY |-> 0]

\* TeamVectorGemvInternal<Algo::Gemv::Unblocked>::invoke(member, N, m, n,
\* alpha, A, as0, as1, as2, x, xs0, xs1, beta, y, ys0, ys1): for each of the N
\* matrices y = beta y + alpha A x, read through the pointers and strides;
\* returns 0
TeamVectorGemvInternal(g, args) ==
  [g EXCEPT !.internal = Append(@, args), !.readsA = @ + 1,
            !.readsX = @ + 1, !.writesY = @ + 1, !.ret = 0,
            !.outcome = "returned"]

\* Kokkos::abort(msg): the process ends
abort(g, m) == [g EXCEPT !.outcome = "aborted", !.msg = m]

NotImplemented ==
  "KokkosBatched::TeamVectorGemv<Algo::Gemv::Blocked> for rank-3 matrix is NOT implemented"

\* static_assert(AViewType::Rank == 3, ...)
GemvRankAssertHolds(rank) == rank = 3

\* TeamVectorGemv<MemberType, Trans::NoTranspose, Algo::Gemv::Unblocked>
TeamVectorGemv_NoTranspose_Unblocked(g, member, alpha, A, x, beta, y) ==
  TeamVectorGemvInternal(g,
    <<member, view_extent(A, 0), view_extent(A, 1), view_extent(A, 2), alpha,
      data(A), stride_0(A), stride_1(A), stride_2(A), data(x), stride_0(x),
      stride_1(x), beta, data(y), stride_0(y), stride_1(y)>>)

\* TeamVectorGemv<MemberType, Trans::NoTranspose, Algo::Gemv::Blocked>
TeamVectorGemv_NoTranspose_Blocked_AsUnblocked(g, member, alpha, A, x, beta, y) ==
  TeamVectorGemv_NoTranspose_Unblocked(g, member, alpha, A, x, beta, y)

TeamVectorGemv_NoTranspose_Blocked(g, member, alpha, A, x, beta, y) ==
  abort(g, NotImplemented)

\* TeamVectorGemv<MemberType, Trans::Transpose, Algo::Gemv::Unblocked>
TeamVectorGemv_Transpose_Unblocked_ExtentsOnly(g, member, alpha, A, x, beta, y) ==
  TeamVectorGemvInternal(g,
    <<member, view_extent(A, 0), view_extent(A, 2), view_extent(A, 1), alpha,
      data(A), stride_0(A), stride_1(A), stride_2(A), data(x), stride_0(x),
      stride_1(x), beta, data(y), stride_0(y), stride_1(y)>>)

TeamVectorGemv_Transpose_Unblocked(g, member, alpha, A, x, beta, y) ==
  TeamVectorGemvInternal(g,
    <<member, view_extent(A, 0), view_extent(A, 2), view_extent(A, 1), alpha,
      data(A), stride_0(A), stride_2(A), stride_1(A), data(x), stride_0(x),
      stride_1(x), beta, data(y), stride_0(y), stride_1(y)>>)

\* TeamVectorGemv<MemberType, Trans::Transpose, Algo::Gemv::Blocked>
TeamVectorGemv_Transpose_Blocked(g, member, alpha, A, x, beta, y) ==
  abort(g, NotImplemented)

\* TeamVectorGemv<MemberType, trans, algo>::invoke(member, alpha, A, x, beta,
\* y), from its start to its end
TeamVectorGemv(trans, algo, member, alpha, A, x, beta, y) ==
  CASE trans = "NoTranspose" /\ algo = "Unblocked" ->
         TeamVectorGemv_NoTranspose_Unblocked(GemvFrame, member, alpha, A, x,
                                              beta, y)
    [] trans = "NoTranspose" /\ algo = "Blocked" ->
         TeamVectorGemv_NoTranspose_Blocked(GemvFrame, member, alpha, A, x,
                                            beta, y)
    [] trans = "Transpose" /\ algo = "Unblocked" ->
         TeamVectorGemv_Transpose_Unblocked(GemvFrame, member, alpha, A, x,
                                            beta, y)
    [] trans = "Transpose" /\ algo = "Blocked" ->
         TeamVectorGemv_Transpose_Blocked(GemvFrame, member, alpha, A, x,
                                          beta, y)

(***************************************************************************)
(* State.                                                                  *)
(*   inst     the instantiation                                            *)
(*   handle0  the BatchedGemmHandle as the caller constructed it           *)
(*   handle   the same handle now; the caller passes it to every call      *)
(*   pc       "ill_formed": the instantiation does not compile (a          *)
(*            static_assert fails), nothing can be called;                 *)
(*            "idle": the caller may call run();                           *)
(*            "done": a call has ended and the caller looks at its result  *)
(*            "unused": no call of BatchedGemm is made (SpecGemv)          *)
(*   last     the call that has ended: the M, N and K the caller gave the  *)
(*            matrices (A is M x K, B is K x N, C is M x N), the extents   *)
(*            of A, B and C, the tuning fields of the handle when the call *)
(*            began, and the frame when it ended                           *)
(*   gemv     the state of the team that calls TeamVectorGemv: the         *)
(*            template arguments trans and algo and the rank of AViewType  *)
(*            (fixed by InitGemv), its pc ("ill_formed", "idle", "done",   *)
(*            or "aborted" once Kokkos::abort has ended the process), and  *)
(*            the arguments and the frame of the invoke that has ended     *)
(***************************************************************************)
VARIABLES inst, handle0, handle, pc, last, gemv

vars == <<inst, handle0, handle, pc, last, gemv>>

TuneValues == {0, MaxTune}

Handles ==
  [kernelAlgoType : AlgoIds, teamSz : TuneValues, vecLen : TuneValues,
   enableDebug : BOOLEAN]

NoCall ==
  [M |-> 0, N |-> 0, K |-> 0, A |-> <<0, 0, 0>>, B |-> <<0, 0, 0>>,
   C |-> <<0, 0, 0>>, pre |-> [teamSz |-> 0, vecLen |-> 0],
   frame |-> Frame([kernelAlgoType |-> SQUARE, teamSz |-> 0, vecLen |-> 0,
                    enableDebug |-> FALSE])]

NoView == [data |-> "none", extents |-> <<>>, strides |-> <<>>]

NoInvoke ==
  [alpha |-> 0, A |-> NoView, x |-> NoView, beta |-> 0, y |-> NoView,
   frame |-> GemvFrame]

\* no team calls TeamVectorGemv
NoGemv ==
  [trans |-> "NoTranspose", algo |-> "Unblocked", rank |-> 3,
   pc |-> "unused", last |-> NoInvoke]

\* the handle of a program that does not compile: none is constructed
NoHandle ==
  [kernelAlgoType |-> SQUARE, teamSz |-> 0, vecLen |-> 0,
   enableDebug |-> FALSE]

\* every static_assert of run() holds
WellFormed(i) == RankAssertsHold(i) /\ LayoutAssertsHold(i)

Init ==
  /\ gemv = NoGemv
  /\ inst \in Instantiations
  /\ handle0 \in (IF WellFormed(inst) THEN Handles ELSE {NoHandle})
  /\ handle = handle0
  /\ pc = IF WellFormed(inst) THEN "idle" ELSE "ill_formed"
  /\ last = NoCall

\* the M and N the caller may give the matrices of C, M being one of ms
ShapesOf(ms) ==
  {s \in ms \X (0..(MaxExtent + MaxSkew)) :
     s[2] \in {s[1] - MaxSkew, s[1], s[1] + MaxSkew}}

Extents == {m \in 0..MaxExtent : m % ExtentStep = 0}

Shapes == ShapesOf(Extents)

AllShapes == ShapesOf(0..MaxExtent)

\* One call of run() with the handle, an A of NumBatch M x K matrices, a B of
\* NumBatch K x N matrices and a C of NumBatch M x N matrices; the call runs
\* to its end.
RunCall(m, n, k, status) ==
  LET C == CView(inst, NumBatch, m, n)
      f == run(handle, inst, C, status)
  IN /\ last' = [M |-> m, N |-> n, K |-> k,
                 A |-> AView(inst, NumBatch, m, k),
                 B |-> BView(inst, NumBatch, k, n), C |-> C,
                 pre |-> [teamSz |-> handle.teamSz,
                          vecLen |-> handle.vecLen],
                 frame |-> f]
     /\ handle' = f.handle
     /\ pc' = "done"
     /\ UNCHANGED <<inst, handle0, gemv>>

\* The caller calls run() with square matrices in A (K = M); M is a multiple
\* of ExtentStep.
Call ==
  /\ pc = "idle"
  /\ \E s \in Shapes, status \in KernelStatus :
       RunCall(s[1], s[2], s[1], status)

\* The caller is done with the result and may call again.
Release ==
  /\ pc = "done"
  /\ pc' = "idle"
  /\ last' = NoCall
  /\ UNCHANGED <<inst, handle0, handle, gemv>>

Next == Call \/ Release

Spec == Init /\ [][Next]_vars

(***************************************************************************)
(* The square heuristic with every M in 0..MaxExtent: the handle asks for  *)
(* SQUARE (an instantiation that does not compile has no handle).          *)
(***************************************************************************)
InitSquare == Init /\ handle0.kernelAlgoType = SQUARE

CallSquare ==
  /\ pc = "idle"
  /\ \E s \in AllShapes, status \in KernelStatus :
       RunCall(s[1], s[2], s[1], status)

NextSquare == CallSquare \/ Release

SpecSquare == InitSquare /\ [][NextSquare]_vars

(***************************************************************************)
(* The square heuristic with any contraction dimension: the caller gives A *)
(* and B a K that is M or MaxSkew off M.                                   *)
(***************************************************************************)

Contractions(m) == {k \in {m - MaxSkew, m, m + MaxSkew} : k >= 0}

CallAnyK ==
  /\ pc = "idle"
  /\ \E s \in Shapes, status \in KernelStatus :
       \E k \in Contractions(s[1]) : RunCall(s[1], s[2], k, status)

NextAnyK == CallAnyK \/ Release

SpecAnyK == InitSquare /\ [][NextAnyK]_vars

(***************************************************************************)
(* A team calls TeamVectorGemv; no call of BatchedGemm is made.            *)
(***************************************************************************)
InitGemv ==
  /\ inst = [space |-> "Host", mem |-> "host_other", rdc |-> FALSE,
             vega908 |-> FALSE, armpl |-> FALSE, layout |-> "LayoutLeft",
             batch |-> "Right", vec |-> FALSE, rankA |-> 3, rankB |-> 3,
             rankC |-> 3]
  /\ handle0 = NoHandle
  /\ handle = NoHandle
  /\ pc = "unused"
  /\ last = NoCall
  /\ \E t \in GemvTrans, a \in GemvAlgos, r \in Ranks :
       gemv = [trans |-> t, algo |-> a, rank |-> r,
               pc |-> IF GemvRankAssertHolds(r) THEN "idle"
                      ELSE "ill_formed",
               last |-> NoInvoke]

GemvExtents == (1..MaxGemvExtent) \X (1..MaxGemvExtent) \X (1..MaxGemvExtent)

GemvScalars == 0..MaxScalar

\* y = beta y + alpha op(A) x: x has as many entries per matrix as op(A) has
\* columns and y as many as op(A) has rows
XLength(trans, e) == IF trans = "NoTranspose" THEN e[3] ELSE e[2]

YLength(trans, e) == IF trans = "NoTranspose" THEN e[2] ELSE e[3]

\* The team calls invoke with contiguous views A, x and y; the invoke runs
\* to its end, which is its return or the end of the process.
GemvInvoke ==
  /\ gemv.pc = "idle"
  /\ \E e \in GemvExtents, alpha \in GemvScalars, beta \in GemvScalars,
        la \in ViewLayouts, lx \in ViewLayouts, ly \in ViewLayouts :
       LET A == View("A", e, la)
           x == View("x", <<e[1], XLength(gemv.trans, e)>>, lx)
           y == View("y", <<e[1], YLength(gemv.trans, e)>>, ly)
           g == TeamVectorGemv(gemv.trans, gemv.algo, "member", alpha, A, x,
                               beta, y)
       IN gemv' = [gemv EXCEPT
                     !.pc = IF g.outcome = "aborted" THEN "aborted"
                            ELSE "done",
                     !.last = [alpha |-> alpha, A |-> A, x |-> x,
                               beta |-> beta, y |-> y, frame |-> g]]
  /\ UNCHANGED <<inst, handle0, handle, pc, last>>

\* The team is done with the result and may call again.
GemvRelease ==
  /\ gemv.pc = "done"
  /\ gemv' = [gemv EXCEPT !.pc = "idle", !.last = NoInvoke]
  /\ UNCHANGED <<inst, handle0, handle, pc, last>>

NextGemv == GemvInvoke \/ GemvRelease

SpecGemv == InitGemv /\ [][NextGemv]_vars

(***************************************************************************)
(* Vocabulary of the properties.                                           *)
(***************************************************************************)
Done == pc = "done"

Returned == Done /\ last.frame.outcome = "returned"

Failed == Done /\ last.frame.outcome = "error"

Algo == handle0.kernelAlgoType

on_gpu == kk_is_gpu_exec_space(inst)

\* A, B and C all have rank r
RanksAre(r) == inst.rankA = r /\ inst.rankB = r /\ inst.rankC = r

\* the call returned from the square heuristic
SquareReturned == Returned /\ Algo = SQUARE

\* the first kernel the call invoked is the tiled / the per-item one
FirstKernelIs(name) ==
  /\ Len(last.frame.invoked) >= 1
  /\ last.frame.invoked[1].kernel = name

\* the square heuristic took the tiled path
HeuristicTiled == SquareReturned /\ FirstKernelIs("BatchedDblBufGemm")

(***************************************************************************)
(* C1.  Square heuristic on a non-square C: whenever a call ends with the  *)
(* handle's algorithm SQUARE and C holding M x N matrices with M # N, it   *)
(* ended with an error, invoked no kernel and C was not written; on every  *)
(* layout and every backend.                                               *)
(***************************************************************************)
C1_NonSquareRejected ==
  (Done /\ Algo = SQUARE /\ last.M # last.N)
    => /\ last.frame.outcome = "error"
       /\ last.frame.invoked = <<>>
       /\ last.frame.cWrites = 0

\* the spec's example, M = 4 and N = 8, on an accelerator
C1_Witness ==
  /\ Failed /\ Algo = SQUARE /\ on_gpu
  /\ last.M = 4 /\ last.N = 8
  /\ last.frame.cWrites = 0

(***************************************************************************)
(* C2.  A call that returns a status has invoked exactly one kernel,       *)
(* exactly once, and returns the status of that kernel; a call that ends   *)
(* with an error has invoked no kernel.                                    *)
(***************************************************************************)
C2_ExactlyOneKernel ==
  /\ Returned => /\ Len(last.frame.invoked) = 1
                 /\ last.frame.cWrites = 1
                 /\ last.frame.ret = last.frame.statuses[1]
  /\ Failed => /\ last.frame.invoked = <<>>
               /\ last.frame.cWrites = 0

\* the heuristic fell to the per-item kernel on an accelerator, and the
\* kernel reported a failure that the call returned
C2_Witness ==
  /\ SquareReturned /\ on_gpu
  /\ last.frame.out_of_range
  /\ FirstKernelIs("BatchedSerialGemm")
  /\ last.frame.ret = 1

(***************************************************************************)
(* C3.  Selection is deterministic: a call on the reused handle, whatever  *)
(* earlier calls have written to its tuning fields, selects the kernel     *)
(* instantiation (or ends with the error) that the same call selects on    *)
(* the handle as the caller constructed it; so two calls with the same     *)
(* algorithm, shape, layout, backend and scalar class select the same one. *)
(***************************************************************************)
C3_SelectionDeterministic ==
  Done => LET first == run(handle0, inst, last.C, last.frame.ret) IN
          /\ last.frame.invoked = first.invoked
          /\ last.frame.outcome = first.outcome

\* a call on a handle whose tuning fields an earlier call has rewritten
\* takes the tiled path again
C3_Witness ==
  /\ HeuristicTiled
  /\ last.pre.teamSz = 8 /\ handle0.teamSz # 8
  /\ last.pre.vecLen = 8 /\ handle0.vecLen # 8

(***************************************************************************)
(* C4 as amended.  A row-major (LayoutRight) C is accepted exactly with    *)
(* the batch axis first, BatchLayout::Left, (batch, rows, cols), and a     *)
(* column-major (LayoutLeft) C exactly with the batch axis last,           *)
(* BatchLayout::Right, (rows, cols, batch); every other pairing of a       *)
(* row-major or column-major C does not compile, so nothing is computed.   *)
(***************************************************************************)
C4_LayoutPairing ==
  /\ (RanksAre(3) /\ inst.layout = "LayoutRight") =>
       ((pc # "ill_formed") <=> (inst.batch = "Left"))
  /\ (RanksAre(3) /\ inst.layout = "LayoutLeft") =>
       ((pc # "ill_formed") <=> (inst.batch = "Right"))
  /\ pc = "ill_formed" => last = NoCall /\ handle = handle0

\* a call with a row-major C whose batch axis is first ran a kernel
C4_Witness ==
  /\ Returned
  /\ inst.layout = "LayoutRight" /\ inst.batch = "Left"
  /\ last.C = <<NumBatch, last.M, last.N>>
  /\ last.frame.cWrites = 1

\* C4 as the claim states it: a call is accepted only with a row-major C
\* whose batch axis is last or a column-major C whose batch axis is first.
C4_Original ==
  Done => /\ inst.layout = "LayoutRight" => inst.batch = "Right"
          /\ inst.layout = "LayoutLeft" => inst.batch = "Left"

(***************************************************************************)
(* C5.  An algorithm identifier that is not handled for the operands (not  *)
(* one of SQUARE, KK_SERIAL, KK_SERIAL_RANK0, KK_DBLBUF, nor ARMPL with    *)
(* the binding compiled in; or, for SIMD values, not one of KK_SERIAL,     *)
(* SQUARE, ARMPL) ends the call with an error whose message holds the      *)
(* identifier, and no kernel is invoked.                                   *)
(***************************************************************************)
HandledIds ==
  ({SQUARE, KK_SERIAL, KK_SERIAL_RANK0, KK_DBLBUF}
     \cup (IF inst.armpl THEN {ARMPL} ELSE {}))
    \cap (IF inst.vec THEN {KK_SERIAL, SQUARE, ARMPL} ELSE AlgoIds)

C5_UnsupportedIdReported ==
  (Done /\ Algo \notin HandledIds)
    => /\ last.frame.outcome = "error"
       /\ Len(last.frame.msg) >= 2
       /\ last.frame.msg[2] = to_string(Algo)
       /\ last.frame.invoked = <<>>
       /\ last.frame.cWrites = 0

\* ARMPL is requested for plain scalars in a build without the binding
C5_Witness ==
  /\ Failed /\ Algo = ARMPL /\ ~inst.armpl /\ ~inst.vec
  /\ last.frame.msg[2] = "3"
  /\ last.frame.invoked = <<>>

(***************************************************************************)
(* C6 as amended.  Square heuristic, accelerator: for a column-major       *)
(* (LayoutLeft) C the tiled kernel is selected exactly when c_m >= 16, a   *)
(* single threshold; for every other layout it is selected exactly when    *)
(* 24 <= c_m <= 32 or c_m >= 40, so the sizes 33..39 go to the per-item    *)
(* kernel although the smaller sizes 24..32 are tiled; the per-item kernel *)
(* is selected whenever the tiled one is not.                              *)
(***************************************************************************)
C6_TiledRanges ==
  (SquareReturned /\ on_gpu)
    => /\ FirstKernelIs("BatchedDblBufGemm") <=>
            IF inst.layout = "LayoutLeft"
            THEN last.M >= 16
            ELSE (last.M >= 24 /\ last.M <= 32) \/ last.M >= 40
       /\ FirstKernelIs("BatchedDblBufGemm")
            \/ FirstKernelIs("BatchedSerialGemm")

\* a row-major C of 36 x 36 matrices goes to the per-item kernel
C6_Witness ==
  /\ SquareReturned /\ on_gpu
  /\ inst.layout = "LayoutRight"
  /\ last.M = 36
  /\ FirstKernelIs("BatchedSerialGemm")

\* C6 as the claim states it: one threshold T per layout, the tiled kernel
\* exactly for c_m >= T, hence also for every larger c_m once it is selected.
C6_Original ==
  (SquareReturned /\ on_gpu)
    => \E T \in 0..(MaxExtent + 1) :
         /\ FirstKernelIs("BatchedDblBufGemm") <=> last.M >= T
         /\ \A m \in 0..MaxExtent : InTiledRange(handle, inst, m) <=> m >= T

(***************************************************************************)
(* C7.  On the heuristic's tiled path the kernel checks no bounds exactly  *)
(* when c_m is a multiple of the row tile dimension tile_m it is           *)
(* instantiated with; the test c_m % 32 = 0 agrees with that.              *)
(***************************************************************************)
C7_BoundsCheckMode ==
  HeuristicTiled
    => LET k == last.frame.invoked[1] IN
       /\ k.bounds \in {"Yes", "No"}
       /\ (k.bounds = "No") <=> (last.M % k.tile_m = 0)
       /\ (last.M % 32 = 0) <=> (last.M % k.tile_m = 0)

\* 64 x 64 on HIP: no bounds check
C7_Witness ==
  /\ HeuristicTiled
  /\ inst.space = "HIP"
  /\ last.M = 64
  /\ last.frame.invoked[1].bounds = "No"

(***************************************************************************)
(* C8.  On the heuristic's tiled path alpha is applied in the fma exactly  *)
(* when c_m >= 64, or c_m >= 24 under relocatable device code, and in a    *)
(* separate multiply otherwise, whatever the bounds-checking mode.         *)
(***************************************************************************)
C8_AlphaInFma ==
  HeuristicTiled
    => LET k == last.frame.invoked[1] IN
       /\ k.alpha \in {"Yes", "No"}
       /\ (k.alpha = "Yes") <=> (last.M >= (IF inst.rdc THEN 24 ELSE 64))

\* under relocatable device code a 24 x 24 C: alpha in the fma, with bounds
\* checks
C8_Witness ==
  /\ HeuristicTiled
  /\ inst.rdc
  /\ last.M = 24
  /\ last.frame.invoked[1].alpha = "Yes"
  /\ last.frame.invoked[1].bounds = "Yes"

(***************************************************************************)
(* C9 as amended.  The heuristic's tiled path uses tile_m = 32,            *)
(* tile_n = 32, tile_k = 8, except for HIP on VEGA908, where tile_m and    *)
(* tile_n stay 32 and tile_k is 16, twice the default.                     *)
(***************************************************************************)
C9_TileSizes ==
  HeuristicTiled
    => LET k == last.frame.invoked[1] IN
       /\ k.tile_m = 32
       /\ k.tile_n = 32
       /\ k.tile_k = IF inst.space = "HIP" /\ inst.vega908 THEN 16 ELSE 8

\* the tiled path on HIP, VEGA908
C9_Witness ==
  /\ HeuristicTiled
  /\ inst.space = "HIP" /\ inst.vega908
  /\ last.frame.invoked[1].tile_k = 16

\* C9 as the claim states it: tile_k = 4 for HIP on VEGA908.
C9_Original ==
  HeuristicTiled
    => LET k == last.frame.invoked[1] IN
       /\ k.tile_m = 32
       /\ k.tile_n = 32
       /\ k.tile_k = IF inst.space = "HIP" /\ inst.vega908 THEN 4 ELSE 8

(***************************************************************************)
(* C10.  A thread-group size or vector width that the caller set to a      *)
(* positive value is still in the handle after every call.                 *)
(***************************************************************************)
C10_CallerTuningKept ==
  /\ handle0.teamSz > 0 => handle.teamSz = handle0.teamSz
  /\ handle0.vecLen > 0 => handle.vecLen = handle0.vecLen

\* the square heuristic ran the per-item kernel
HeuristicSerial == SquareReturned /\ FirstKernelIs("BatchedSerialGemm")

(***************************************************************************)
(* C11.  When the square heuristic runs the per-item kernel, that kernel   *)
(* computes one scalar of C per work item (Rank0) exactly when the backend *)
(* is an accelerator and the scalar is not packed, and one whole matrix    *)
(* per work item (Rank2) in every other case.                              *)
(***************************************************************************)
C11_ResultsPerThread ==
  HeuristicSerial
    => LET k == last.frame.invoked[1] IN
       /\ k.rpt \in {"Rank0", "Rank2"}
       /\ k.rpt = "Rank0" <=> (on_gpu /\ ~inst.vec)

\* packed scalars on an accelerator, outside the tiled range: Rank2
C11_Witness ==
  /\ HeuristicSerial
  /\ on_gpu /\ inst.vec
  /\ last.frame.invoked[1].rpt = "Rank2"

(***************************************************************************)
(* C12.  The serial mode of the per-item kernel the square heuristic runs: *)
(* with packed scalars it is Blocked on an accelerator and on an x86_64    *)
(* host and Unblocked on every other host (a64fx included); with plain     *)
(* scalars it is Unblocked on an accelerator and on a64fx and Blocked on   *)
(* every other host.                                                       *)
(***************************************************************************)
C12_SerialMode ==
  HeuristicSerial
    => LET k == last.frame.invoked[1] IN
       k.mode = IF inst.vec
                THEN (IF on_gpu \/ inst.mem = "host_x86_64"
                      THEN "Blocked" ELSE "Unblocked")
                ELSE (IF on_gpu \/ inst.mem = "host_a64fx"
                      THEN "Unblocked" ELSE "Blocked")

\* plain scalars on an accelerator, outside the tiled range: Unblocked
C12_Witness ==
  /\ HeuristicSerial
  /\ on_gpu /\ ~inst.vec
  /\ last.frame.invoked[1].mode = "Unblocked"

\* C12 as the claim states it: Blocked on every host-class and every
\* accelerator-class backend, packed or plain, Unblocked only on a64fx.
C12_Original ==
  HeuristicSerial
    => LET k == last.frame.invoked[1] IN
       k.mode = IF inst.mem = "host_a64fx" THEN "Unblocked" ELSE "Blocked"

\* the handle as it was when the call that has ended began
HandleBefore ==
  [handle0 EXCEPT !.teamSz = last.pre.teamSz, !.vecLen = last.pre.vecLen]

\* the call that has ended, made again with enableDebug the other way round
DebugTwin ==
  run([HandleBefore EXCEPT !.enableDebug = ~@], inst, last.C,
      last.frame.ret)

\* the call passed the first switch and reached the switch that dispatches
ReachedDispatch == Done /\ ~(inst.vec /\ ~SimdAlgoSupported(Algo))

(***************************************************************************)
(* C14.  enableDebug does not influence the outcome: the same call with    *)
(* the flag the other way round invokes the same kernels, ends the same    *)
(* way with the same status or the same error message, and leaves the same *)
(* teamSz and vecLen in the handle.  The flag only adds output: nothing is *)
(* written without it, and with it the dump of the derived types is        *)
(* written before the dispatch, hence also by the calls that then end with *)
(* an error in the dispatch.                                               *)
(***************************************************************************)
C14_DebugOnlyAddsOutput ==
  Done
    => LET f == last.frame
           g == DebugTwin
       IN /\ g.invoked = f.invoked
          /\ g.outcome = f.outcome
          /\ g.ret = f.ret
          /\ g.msg = f.msg
          /\ g.handle.teamSz = f.handle.teamSz
          /\ g.handle.vecLen = f.handle.vecLen
          /\ g.handle.kernelAlgoType = f.handle.kernelAlgoType
          /\ ~handle0.enableDebug => f.out = <<>>
          /\ (handle0.enableDebug /\ ReachedDispatch)
               => /\ Len(f.out) >= 1
                  /\ f.out[1][1] = "is_vector"
                  /\ g.out = <<>>

\* a debugging call of the square heuristic on a non-square C: the dump is
\* written and the call then ends with the error
C14_Witness ==
  /\ Failed /\ Algo = SQUARE /\ last.M # last.N
  /\ handle0.enableDebug
  /\ Len(last.frame.out) = 1
  /\ DebugTwin.out = <<>>
  /\ DebugTwin.msg = last.frame.msg

(***************************************************************************)
(* C15.  The square heuristic on a square C (c_m = c_n): on a host backend *)
(* the per-item kernel runs, whatever c_m; on an accelerator with          *)
(* LayoutLeft the tiled kernel runs exactly when c_m >= 16; on an          *)
(* accelerator with any other layout the tiled kernel runs exactly when    *)
(* 24 <= c_m <= 32 or c_m >= 40; in every other case, c_m = 0 included,    *)
(* the per-item kernel runs.                                               *)
(***************************************************************************)
C15_SquareSelection ==
  (Done /\ Algo = SQUARE /\ last.M = last.N)
    => LET m == last.M
           tiled == /\ on_gpu
                    /\ IF inst.layout = "LayoutLeft"
                       THEN m >= 16
                       ELSE (24 <= m /\ m <= 32) \/ m >= 40
       IN /\ Returned
          /\ Len(last.frame.invoked) = 1
          /\ last.frame.invoked[1].kernel =
               IF tiled THEN "BatchedDblBufGemm" ELSE "BatchedSerialGemm"

\* an accelerator, LayoutRight, c_m = 36: in the gap between the two ranges
C15_Witness ==
  /\ HeuristicSerial
  /\ on_gpu /\ inst.layout = "LayoutRight"
  /\ last.M = 36 /\ last.N = 36

(***************************************************************************)
(* C16.  With a packed scalar type only KK_SERIAL, SQUARE and ARMPL pass   *)
(* the first check; a call with any other algorithm id (KK_SERIAL_RANK0    *)
(* and KK_DBLBUF included) ends with the error "... does not support       *)
(* kernelAlgoType = <id> with SIMD views.".  That error comes before the   *)
(* shape of C is read, before the square check, before the dump of the     *)
(* derived types and before any kernel.                                    *)
(***************************************************************************)
C16_SimdAlgoCheck ==
  (Done /\ inst.vec)
    => LET f == last.frame
           simdError == /\ f.outcome = "error"
                        /\ Len(f.msg) = 4
                        /\ f.msg[3] = " with SIMD views."
       IN /\ simdError <=> Algo \notin {KK_SERIAL, SQUARE, ARMPL}
          /\ simdError => /\ f.msg[2] = to_string(Algo)
                          /\ f.invoked = <<>>
                          /\ f.cWrites = 0
                          /\ f.out = <<>>

\* KK_DBLBUF with packed scalars, a non-square C and enableDebug set: the
\* error of the first check, nothing written to the output
C16_Witness ==
  /\ Failed /\ inst.vec /\ Algo = KK_DBLBUF
  /\ last.M # last.N /\ handle0.enableDebug
  /\ last.frame.msg[3] = " with SIMD views."
  /\ last.frame.out = <<>>

(***************************************************************************)
(* C17.  KK_DBLBUF with plain scalars: every call invokes the tiled kernel *)
(* with BoundsCheck::Yes, AlphaTag::No and tiles of 1 x 1 x 1, for every   *)
(* shape of C, every layout and every backend, and nothing else.           *)
(***************************************************************************)
C17_DblBufFixed ==
  (Done /\ Algo = KK_DBLBUF /\ ~inst.vec)
    => /\ Returned
       /\ last.frame.invoked = <<BatchedDblBufGemm("Yes", "No", 1, 1, 1)>>
       /\ last.frame.out_of_range = FALSE
       /\ handle.teamSz = last.pre.teamSz
       /\ handle.vecLen = last.pre.vecLen

\* KK_DBLBUF on an accelerator with a C of 64 x 64 matrices, where the
\* square heuristic would choose BoundsCheck::No and tiles of 32 x 32
C17_Witness ==
  /\ Returned /\ Algo = KK_DBLBUF /\ ~inst.vec /\ on_gpu
  /\ last.M = 64 /\ last.N = 64
  /\ last.frame.invoked[1].bounds = "Yes"
  /\ last.frame.invoked[1].tile_m = 1

(***************************************************************************)
(* C13.  Validation of the ranks of the operands: views of rank 3 for A, B *)
(* and C are accepted with any scalar type, views of rank 4 are accepted   *)
(* as well when the scalar type is packed, and operands of any other rank  *)
(* are rejected before any computation.  (Stated for the instantiations    *)
(* whose layout pairing is accepted.)                                      *)
(***************************************************************************)
C13_RankValidation ==
  LayoutAssertsHold(inst)
    => /\ (pc # "ill_formed")
            <=> \/ RanksAre(3)
                \/ /\ inst.vec
                   /\ {inst.rankA, inst.rankB, inst.rankC} \subseteq {3, 4}
       /\ pc = "ill_formed" => last = NoCall /\ handle = handle0

(***************************************************************************)
(* C20.  Whenever the square heuristic runs the tiled kernel without       *)
(* bounds checks (BoundsCheck::No), every dimension the kernel tiles is a  *)
(* multiple of its tile size: M of tile_m, N of tile_n and the contraction *)
(* dimension K of tile_k.                                                  *)
(***************************************************************************)
C20_NoBoundsCheckDivisible ==
  (HeuristicTiled /\ last.frame.invoked[1].bounds = "No")
    => LET k == last.frame.invoked[1] IN
       /\ last.M % k.tile_m = 0
       /\ last.N % k.tile_n = 0
       /\ last.K % k.tile_k = 0

(***************************************************************************)
(* Vocabulary of the properties of TeamVectorGemv.                         *)
(***************************************************************************)
GemvEnded == gemv.pc \in {"done", "aborted"}

\* the view of A whose row axis and column axis are exchanged: same data,
\* extent(1) and extent(2) swapped, stride_1 and stride_2 swapped
SwapAxes(A) ==
  [data |-> A.data,
   extents |-> <<A.extents[1], A.extents[3], A.extents[2]>>,
   strides |-> <<A.strides[1], A.strides[3], A.strides[2]>>]

\* the invoke that has ended, made again with other template arguments and
\* another A
GemvAgain(trans, algo, A) ==
  TeamVectorGemv(trans, algo, "member", gemv.last.alpha, A, gemv.last.x,
                 gemv.last.beta, gemv.last.y)

(***************************************************************************)
(* C18.  TeamVectorGemv with Algo::Gemv::Blocked, for Trans::NoTranspose   *)
(* and for Trans::Transpose: every invoke ends the process in              *)
(* Kokkos::abort with the message "... is NOT implemented", whatever       *)
(* alpha, A, x, beta and y are; A and x are not read, y is not written and *)
(* no status is returned.  With Algo::Gemv::Unblocked every invoke         *)
(* computes (one call of TeamVectorGemvInternal) and returns.              *)
(***************************************************************************)
C18_BlockedAborts ==
  GemvEnded
    => LET g == gemv.last.frame IN
       /\ gemv.algo = "Blocked"
            => /\ gemv.pc = "aborted"
               /\ g.outcome = "aborted"
               /\ g.msg = NotImplemented
               /\ g.internal = <<>>
               /\ g.readsA = 0 /\ g.readsX = 0 /\ g.writesY = 0
       /\ gemv.algo = "Unblocked"
            => /\ gemv.pc = "done"
               /\ g.outcome = "returned"
               /\ Len(g.internal) = 1
               /\ g.writesY = 1

\* a Blocked invoke for the transpose with alpha = 1 has aborted
C18_Witness ==
  /\ gemv.pc = "aborted"
  /\ gemv.algo = "Blocked" /\ gemv.trans = "Transpose"
  /\ gemv.last.alpha = 1
  /\ gemv.last.frame.writesY = 0

(***************************************************************************)
(* C19.  TeamVectorGemv<Transpose, Unblocked>::invoke on A is              *)
(* TeamVectorGemv<NoTranspose, Unblocked>::invoke on the view of A with    *)
(* the row and column axes exchanged: the batch extent and stride_0 are    *)
(* passed as they are, extent(1) with extent(2) and stride_1 with stride_2 *)
(* are swapped, alpha, beta, x and y are passed identically and the data   *)
(* pointer is A's own.  The exchange applied twice is the NoTranspose      *)
(* call.                                                                   *)
(***************************************************************************)
C19_TransposeIsAxisSwap ==
  (gemv.pc = "done" /\ gemv.algo = "Unblocked")
    => LET c == gemv.last
           A == c.A
           T(V) == GemvAgain("Transpose", "Unblocked", V)
           NT(V) == GemvAgain("NoTranspose", "Unblocked", V)
       IN /\ c.frame = GemvAgain(gemv.trans, "Unblocked", A)
          /\ T(A) = NT(SwapAxes(A))
          /\ T(SwapAxes(A)) = NT(A)
          /\ SwapAxes(SwapAxes(A)) = A
          /\ T(A).internal =
               <<<<"member", A.extents[1], A.extents[3], A.extents[2],
                   c.alpha, A.data, A.strides[1], A.strides[3], A.strides[2],
                   c.x.data, c.x.strides[1], c.x.strides[2], c.beta,
                   c.y.data, c.y.strides[1], c.y.strides[2]>>>>

\* a Transpose invoke on a row-major A of two 1 x 2 matrices: the internal
\* routine is given 2 rows, 1 column, row stride 1 and column stride 2
C19_Witness ==
  /\ gemv.pc = "done"
  /\ gemv.trans = "Transpose" /\ gemv.algo = "Unblocked"
  /\ gemv.last.A = View("A", <<2, 1, 2>>, "LayoutRight")
  /\ gemv.last.frame.internal[1][3] = 2
  /\ gemv.last.frame.internal[1][4] = 1
  /\ gemv.last.frame.internal[1][8] = 1
  /\ gemv.last.frame.internal[1][9] = 2

(***************************************************************************)
(* Vocabulary of the properties of the handle.                             *)
(***************************************************************************)
Tuning(h) == <<h.teamSz, h.vecLen>>

\* the selector has left every field of the handle as the call found it
HandleNotWritten ==
  handle = [handle0 EXCEPT !.teamSz = last.pre.teamSz,
                           !.vecLen = last.pre.vecLen]

(***************************************************************************)
(* C21.  Across any sequence of calls on one handle: a call writes the     *)
(* handle only on the tiled path of the square heuristic, where it sets    *)
(* teamSz and vecLen both to 8 and invokes the tiled kernel; a call that   *)
(* runs the per-item kernel of the heuristic, a call with KK_SERIAL,       *)
(* KK_SERIAL_RANK0 or KK_DBLBUF (or ARMPL) and every call that ends with   *)
(* an error writes no field of the handle; the algorithm identifier (and   *)
(* enableDebug) is never changed.  So (teamSz, vecLen) is always the pair  *)
(* the caller constructed the handle with or (8, 8), and once it is (8, 8) *)
(* every step leaves it (8, 8).                                            *)
(***************************************************************************)
C21_HandleWrites ==
  /\ [](/\ handle.kernelAlgoType = handle0.kernelAlgoType
        /\ handle.enableDebug = handle0.enableDebug
        /\ Tuning(handle) \in {Tuning(handle0), <<8, 8>>}
        /\ Done => /\ last.frame.handle = handle
                   /\ HeuristicTiled => Tuning(handle) = <<8, 8>>
                   /\ ~HeuristicTiled => HandleNotWritten)
  /\ [][Tuning(handle) = <<8, 8>> => Tuning(handle') = <<8, 8>>]_vars

\* the handle was constructed with teamSz = vecLen = 0, an earlier call took
\* the tiled path, and this call ran the per-item kernel: the pair is still
\* (8, 8)
C21_Witness ==
  /\ HeuristicSerial /\ on_gpu
  /\ Tuning(handle0) = <<0, 0>>
  /\ Tuning(last.pre) = <<8, 8>>
  /\ Tuning(handle) = <<8, 8>>

====
